---- MODULE Spec2Model ----
(***************************************************************************)
(* ASA CODE-HARMONIZER (Cloudflare Worker, src/index.js).                  *)
(*                                                                         *)
(* Two specifications over the same module:                                *)
(*   SpecRecon  the pure reconciliation / harmonization core               *)
(*              (analyzeModules, analyzeAndBuildHarmonized and helpers),   *)
(*              applied to module lists drawn from bounded pools;          *)
(*   Spec       the request handlers (plan / apply) running against the    *)
(*              remote repository API, one action per awaited remote call. *)
(*                                                                         *)
(* JavaScript values are modelled as follows.  Strings are TLA+ strings.   *)
(* A plain object is the sequence of its own properties <<key, value>> in  *)
(* insertion order; enumeration order (Object.entries / Object.values /    *)
(* Object.keys) is computed by OwnKeys: array-index keys ascending first,  *)
(* then the other keys in insertion order.                                 *)
(***************************************************************************)
EXTENDS Integers, Sequences, FiniteSets, TLC

(***************************************************************************)
(* Strings                                                                 *)
(***************************************************************************)
Digits == {"0", "1", "2", "3", "4", "5", "6", "7", "8", "9"}

CharAt(s, i) == SubSeq(s, i, i)

DigitVal(c) ==
  CASE c = "0" -> 0 [] c = "1" -> 1 [] c = "2" -> 2 [] c = "3" -> 3
    [] c = "4" -> 4 [] c = "5" -> 5 [] c = "6" -> 6 [] c = "7" -> 7
    [] c = "8" -> 8 [] c = "9" -> 9

\* String.prototype.startsWith / endsWith
StartsWith(s, p) == Len(p) <= Len(s) /\ SubSeq(s, 1, Len(p)) = p

EndsWith(s, p) == Len(p) <= Len(s) /\ SubSeq(s, Len(s) - Len(p) + 1, Len(s)) = p

\* the pieces of s cut at the positions of cuts (ascending), the last piece
\* running to the end of s
PiecesAt(s, cuts) ==
  [k \in 1..(Len(cuts) + 1) |->
     SubSeq(s, IF k = 1 THEN 1 ELSE cuts[k-1] + 1,
               IF k > Len(cuts) THEN Len(s) ELSE cuts[k] - 1)]

\* String.prototype.split(sep) for a one-character separator
SplitOn(s, sep) ==
  PiecesAt(s, SelectSeq([i \in 1..Len(s) |-> i], LAMBDA i : CharAt(s, i) = sep))

\* the decimal value of a string of digits
DecValue(s) ==
  LET f[i \in 0..Len(s)] ==
        IF i = 0 THEN 0 ELSE 10 * f[i-1] + DigitVal(CharAt(s, i))
  IN  f[Len(s)]

\* the length of the longest prefix of s made of digits
DigitPrefixLen(s) ==
  IF \A i \in 1..Len(s) : CharAt(s, i) \in Digits THEN Len(s)
  ELSE (CHOOSE i \in 1..Len(s) :
          /\ CharAt(s, i) \notin Digits
          /\ \A j \in 1..(i-1) : CharAt(s, j) \in Digits) - 1

\* the number of leading blanks of s
BlankPrefixLen(s) ==
  IF \A i \in 1..Len(s) : CharAt(s, i) = " " THEN Len(s)
  ELSE (CHOOSE i \in 1..Len(s) :
          /\ CharAt(s, i) # " "
          /\ \A j \in 1..(i-1) : CharAt(s, j) = " ") - 1

\* the number read from the first n characters of u (digits), NaN when n = 0
ParseDigits(u, n, neg) ==
  IF n = 0 THEN [nan |-> TRUE, val |-> 0]
  ELSE [nan |-> FALSE,
        val |-> IF neg THEN 0 - DecValue(SubSeq(u, 1, n)) ELSE DecValue(SubSeq(u, 1, n))]

\* an optional sign, then digits
ParseSigned(t) ==
  IF Len(t) > 0 /\ CharAt(t, 1) \in {"-", "+"}
  THEN ParseDigits(Tail(t), DigitPrefixLen(Tail(t)), CharAt(t, 1) = "-")
  ELSE ParseDigits(t, DigitPrefixLen(t), FALSE)

\* parseInt(s, 10): optional leading blanks, optional sign, then the longest
\* run of digits; NaN when there is no digit.
ParseInt(s) == ParseSigned(SubSeq(s, BlankPrefixLen(s) + 1, Len(s)))

\* a canonical array index: "0", or digits without a leading zero
\* (below 2^32 - 1, which every string of the pools is)
IsArrayIndex(s) ==
  /\ Len(s) > 0
  /\ \A i \in 1..Len(s) : CharAt(s, i) \in Digits
  /\ (Len(s) > 1 => CharAt(s, 1) # "0")

(***************************************************************************)
(* Arrays                                                                  *)
(***************************************************************************)
\* Array.from(new Set(values)): the distinct values, by first occurrence
UniqueValues(values) ==
  LET f[i \in 0..Len(values)] ==
        IF i = 0 THEN <<>>
        ELSE IF \E j \in 1..Len(f[i-1]) : f[i-1][j] = values[i]
             THEN f[i-1]
             ELSE Append(f[i-1], values[i])
  IN  f[Len(values)]

\* x inserted before position p of sorted (p = Len(sorted) + 1 appends)
InsertAt(sorted, x, p) ==
  SubSeq(sorted, 1, p - 1) \o <<x>> \o SubSeq(sorted, p, Len(sorted))

\* Array.prototype.sort(cmp): stable, cmp(a, b) < 0 puts a before b
StableSort(s, Cmp(_, _)) ==
  LET f[i \in 0..Len(s)] ==
        IF i = 0 THEN <<>>
        ELSE InsertAt(f[i-1], s[i],
                      Cardinality({j \in 1..Len(f[i-1]) :
                                     \A k \in 1..j : ~(Cmp(s[i], f[i-1][k]) < 0)}) + 1)
  IN  f[Len(s)]

(***************************************************************************)
(* Plain objects                                                           *)
(***************************************************************************)
EmptyObj == <<>>

HasOwn(o, k) == \E i \in 1..Len(o) : o[i][1] = k

GetOwn(o, k) == o[CHOOSE i \in 1..Len(o) : o[i][1] = k][2]

\* o[k] = v
SetProp(o, k, v) ==
  IF HasOwn(o, k)
  THEN [i \in 1..Len(o) |-> IF o[i][1] = k THEN <<k, v>> ELSE o[i]]
  ELSE Append(o, <<k, v>>)

\* the property names every plain object inherits from Object.prototype
ObjectPrototypeKeys ==
  {"constructor", "toString", "valueOf", "hasOwnProperty", "isPrototypeOf",
   "propertyIsEnumerable", "toLocaleString"}

\* a - b on the numeric values of two array-index keys
IndexAsc(a, b) == DecValue(a) - DecValue(b)

\* the array-index keys of ks ascending, then the other keys as they come
IndexKeysFirst(ks) ==
  StableSort(SelectSeq(ks, IsArrayIndex), IndexAsc)
  \o SelectSeq(ks, LAMBDA k : ~IsArrayIndex(k))

\* OrdinaryOwnPropertyKeys: array indices ascending, then insertion order
OwnKeys(o) == IndexKeysFirst([i \in 1..Len(o) |-> o[i][1]])

EntriesIn(o, ks) == [i \in 1..Len(ks) |-> <<ks[i], GetOwn(o, ks[i])>>]

ValuesIn(o, ks) == [i \in 1..Len(ks) |-> GetOwn(o, ks[i])]

\* Object.entries(o) / Object.values(o)
Entries(o) == EntriesIn(o, OwnKeys(o))

Values(o) == ValuesIn(o, OwnKeys(o))

(***************************************************************************)
(* Modules and manifests                                                   *)
(*                                                                         *)
(* A module is [path, name, type, packageJson]; packageJson is NullJson    *)
(* (the manifest failed to parse) or a plain object whose "scripts",       *)
(* "dependencies" and "devDependencies" properties are plain objects with  *)
(* string values.                                                          *)
(***************************************************************************)
NullJson == << <<"null">> >>

\* x || {}  for a packageJson
OrEmptyObj(json) == IF json = NullJson THEN EmptyObj ELSE json

\* pkg[sub] || {}  for one of the three sub-maps (an object is always truthy)
SubMapOrEmpty(pkg, sub) == IF HasOwn(pkg, sub) THEN GetOwn(pkg, sub) ELSE EmptyObj

\* if (!map[k]) map[k] = {};  map[k][name] = v;
\* map[k] reads through the prototype chain: for an inherited name the read
\* is truthy, no own property is created and the write lands on the
\* inherited built-in, not on map.
PutModuleValue(map, k, name, v) ==
  IF HasOwn(map, k) THEN SetProp(map, k, SetProp(GetOwn(map, k), name, v))
  ELSE IF k \in ObjectPrototypeKeys THEN map
  ELSE SetProp(map, k, SetProp(EmptyObj, name, v))

\* map after the entries es of one sub-map were put under the module's name
PutEntries(map, es, prefix, name) ==
  LET f[i \in 0..Len(es)] ==
        IF i = 0 THEN map
        ELSE PutModuleValue(f[i-1], prefix \o es[i][1], name, es[i][2])
  IN  f[Len(es)]

\* for (const [k, v] of Object.entries(sub)) { ... map[prefix + k][name] = v }
FoldSubMap(map, sub, prefix, name) == PutEntries(map, Entries(sub), prefix, name)

\* the scriptsMap built by the loop of analyzeModules
ScriptsMapOf(modules) ==
  LET f[i \in 0..Len(modules)] ==
        IF i = 0 THEN EmptyObj
        ELSE FoldSubMap(f[i-1],
                        SubMapOrEmpty(OrEmptyObj(modules[i].packageJson), "scripts"),
                        "", modules[i].name)
  IN  f[Len(modules)]

\* the depsMap built by the loop of analyzeModules (devDependencies under "dev:")
DepsMapOf(modules) ==
  LET f[i \in 0..Len(modules)] ==
        IF i = 0 THEN EmptyObj
        ELSE FoldSubMap(
               FoldSubMap(f[i-1],
                          SubMapOrEmpty(OrEmptyObj(modules[i].packageJson), "dependencies"),
                          "", modules[i].name),
               SubMapOrEmpty(OrEmptyObj(modules[i].packageJson), "devDependencies"),
               "dev:", modules[i].name)
  IN  f[Len(modules)]

\* counts[v] = (counts[v] || 0) + 1 over the values
\* (no script value of the pools is an Object.prototype member name)
CountsOf(values) ==
  LET f[i \in 0..Len(values)] ==
        IF i = 0 THEN EmptyObj
        ELSE SetProp(f[i-1], values[i],
                     (IF HasOwn(f[i-1], values[i]) THEN GetOwn(f[i-1], values[i]) ELSE 0) + 1)
  IN  f[Len(values)]

\* (a, b) => b[1] - a[1]  on the entries of counts
CountDesc(a, b) == b[2] - a[2]

\* the suggestion pushed for one key of scriptsMap
ScriptSuggestion(key, moduleValues, values, uniqueValues) ==
  IF Len(uniqueValues) = 1
  THEN [kind |-> "uniform", key |-> key, value |-> uniqueValues[1],
        modules |-> moduleValues]
  ELSE [kind |-> "decision", key |-> key,
        recommendedValue |-> StableSort(Entries(CountsOf(values)), CountDesc)[1][1],
        variants |-> CountsOf(values), modules |-> moduleValues]

ScriptSuggestionsOf(es) ==
  [i \in 1..Len(es) |->
     ScriptSuggestion(es[i][1], es[i][2], Values(es[i][2]), UniqueValues(Values(es[i][2])))]

buildScriptSuggestions(scriptsMap) == ScriptSuggestionsOf(Entries(scriptsMap))

\* v.replace(/^[^\d]*/, "")
CleanVersion(v) ==
  IF \A i \in 1..Len(v) : CharAt(v, i) \notin Digits THEN ""
  ELSE LET p == CHOOSE i \in 1..Len(v) :
                  /\ CharAt(v, i) \in Digits
                  /\ \A j \in 1..(i-1) : CharAt(v, j) \notin Digits
       IN  SubSeq(v, p, Len(v))

\* ps.map((n) => parseInt(n || "0", 10))
ParseParts(ps) == [i \in 1..Len(ps) |-> ParseInt(IF ps[i] = "" THEN "0" ELSE ps[i])]

\* clean(v).split(".").map((n) => parseInt(n || "0", 10))
VersionParts(v) == ParseParts(SplitOn(CleanVersion(v), "."))

\* pa[i] || 0  (i counted from 1): 0 for a missing part, NaN or 0
PartOrZero(parts, i) ==
  IF i > Len(parts) THEN 0 ELSE IF parts[i].nan THEN 0 ELSE parts[i].val

FirstThree(parts) == [i \in 1..3 |-> PartOrZero(parts, i)]

\* the (major, minor, patch) tuple compareVersionDesc compares
VersionTuple(v) == FirstThree(VersionParts(v))

\* the loop of compareVersionDesc on the two tuples
CompareTuplesDesc(ta, tb) ==
  IF ta[1] # tb[1] THEN (IF ta[1] > tb[1] THEN 0 - 1 ELSE 1)
  ELSE IF ta[2] # tb[2] THEN (IF ta[2] > tb[2] THEN 0 - 1 ELSE 1)
  ELSE IF ta[3] # tb[3] THEN (IF ta[3] > tb[3] THEN 0 - 1 ELSE 1)
  ELSE 0

compareVersionDesc(a, b) == CompareTuplesDesc(VersionTuple(a), VersionTuple(b))

\* the suggestion pushed for one key of depsMap; sorted is uniqueValues after
\* uniqueValues.sort(compareVersionDesc)
DepSuggestion(key, moduleValues, uniqueValues, sorted) ==
  IF Len(uniqueValues) = 1
  THEN [kind |-> "uniform", key |-> key, version |-> uniqueValues[1],
        modules |-> moduleValues]
  ELSE [kind |-> "decision", key |-> key, recommendedVersion |-> sorted[1],
        variants |-> sorted, modules |-> moduleValues]

SortedVersions(uniqueValues) == StableSort(uniqueValues, compareVersionDesc)

DepSuggestionFor(key, moduleValues, uniqueValues) ==
  DepSuggestion(key, moduleValues, uniqueValues, SortedVersions(uniqueValues))

DepSuggestionsOf(es) ==
  [i \in 1..Len(es) |-> DepSuggestionFor(es[i][1], es[i][2], UniqueValues(Values(es[i][2])))]

buildDepSuggestions(depsMap) == DepSuggestionsOf(Entries(depsMap))

\* the number of suggestions that are not uniform
NeedingSync(suggestions) ==
  Cardinality({i \in 1..Len(suggestions) : suggestions[i].kind # "uniform"})

\* the value analyzeModules returns, from its locals
AnalysisOf(modules, scriptsMap, depsMap, scriptSuggestions, depSuggestions) ==
  [summary |->
     [moduleCount        |-> Len(modules),
      scriptKeys         |-> Len(scriptsMap),
      dependencyKeys     |-> Len(depsMap),
      scriptsNeedingSync |-> NeedingSync(scriptSuggestions),
      depsNeedingSync    |-> NeedingSync(depSuggestions)],
   suggestions |-> [scripts |-> scriptSuggestions, dependencies |-> depSuggestions],
   modulesView |->
     [i \in 1..Len(modules) |->
        [path |-> modules[i].path, name |-> modules[i].name, type |-> modules[i].type,
         hasPackageJson |-> modules[i].packageJson # NullJson]]]

AnalysisOfMaps(modules, scriptsMap, depsMap) ==
  AnalysisOf(modules, scriptsMap, depsMap,
             buildScriptSuggestions(scriptsMap), buildDepSuggestions(depsMap))

analyzeModules(modules) ==
  AnalysisOfMaps(modules, ScriptsMapOf(modules), DepsMapOf(modules))

SubMapKeys == {"scripts", "dependencies", "devDependencies"}

CopyEntries(es) ==
  [i \in 1..Len(es) |->
     <<es[i][1], IF es[i][1] \in SubMapKeys THEN Entries(es[i][2]) ELSE es[i][2]>>]

\* JSON.parse(JSON.stringify(pkg)) for a manifest: a fresh object whose
\* properties, and those of its sub-maps, are re-inserted in enumeration order
DeepCopy(pkg) == CopyEntries(Entries(pkg))

\* if (sub[k]) ...: the read goes through the prototype chain; an own
\* property is truthy unless it is the empty string, an inherited one is a
\* function, hence truthy
TruthyProp(sub, k) ==
  IF HasOwn(sub, k) THEN GetOwn(sub, k) # "" ELSE k \in ObjectPrototypeKeys

\* the scriptDecisions object of analyzeAndBuildHarmonized
ScriptDecisionsOf(scriptSuggestions) ==
  LET f[i \in 0..Len(scriptSuggestions)] ==
        IF i = 0 THEN EmptyObj
        ELSE IF scriptSuggestions[i].kind = "decision"
             THEN SetProp(f[i-1], scriptSuggestions[i].key, scriptSuggestions[i].recommendedValue)
             ELSE f[i-1]
  IN  f[Len(scriptSuggestions)]

\* the depDecisions object of analyzeAndBuildHarmonized
DepDecisionsOf(depSuggestions) ==
  LET f[i \in 0..Len(depSuggestions)] ==
        IF i = 0 THEN EmptyObj
        ELSE IF depSuggestions[i].kind = "decision"
             THEN SetProp(f[i-1], depSuggestions[i].key, depSuggestions[i].recommendedVersion)
             ELSE f[i-1]
  IN  f[Len(depSuggestions)]

DevPrefix == "dev:"

\* sub[k] = v inside pkg[name]
SetInSub(pkg, name, k, v) == SetProp(pkg, name, SetProp(GetOwn(pkg, name), k, v))

\* one iteration of the dependency loop on a manifest copy
ApplyDepDecision(pkg, depKey, version) ==
  IF StartsWith(depKey, DevPrefix)
  THEN IF TruthyProp(GetOwn(pkg, "devDependencies"),
                     SubSeq(depKey, Len(DevPrefix) + 1, Len(depKey)))
       THEN SetInSub(pkg, "devDependencies",
                     SubSeq(depKey, Len(DevPrefix) + 1, Len(depKey)), version)
       ELSE pkg
  ELSE IF TruthyProp(GetOwn(pkg, "dependencies"), depKey)
       THEN SetInSub(pkg, "dependencies", depKey, version)
       ELSE pkg

\* pkg[sub] = pkg[sub] || {}
EnsureSubMap(pkg, sub) == SetProp(pkg, sub, SubMapOrEmpty(pkg, sub))

\* a script loop that overwrites a script only where the module already has it
ApplyScriptDecisionsIfPresent(pkg, sd) ==
  LET f[i \in 0..Len(sd)] ==
        IF i = 0 THEN pkg
        ELSE IF HasOwn(GetOwn(f[i-1], "scripts"), sd[i][1])
             THEN SetInSub(f[i-1], "scripts", sd[i][1], sd[i][2])
             ELSE f[i-1]
  IN  f[Len(sd)]

\* for (const [key, recommended] of Object.entries(scriptDecisions)) pkg.scripts[key] = recommended
ApplyScriptDecisions(pkg, sd) ==
  LET f[i \in 0..Len(sd)] ==
        IF i = 0 THEN pkg ELSE SetInSub(f[i-1], "scripts", sd[i][1], sd[i][2])
  IN  f[Len(sd)]

\* for (const [depKey, version] of Object.entries(depDecisions)) ...
ApplyDepDecisions(pkg, dd) ==
  LET f[i \in 0..Len(dd)] ==
        IF i = 0 THEN pkg ELSE ApplyDepDecision(f[i-1], dd[i][1], dd[i][2])
  IN  f[Len(dd)]

\* the body of the per-module loop of analyzeAndBuildHarmonized
HarmonizeOne(m, scriptDecisions, depDecisions) ==
  ApplyDepDecisions(
    EnsureSubMap(
      EnsureSubMap(
        ApplyScriptDecisions(
          EnsureSubMap(DeepCopy(OrEmptyObj(m.packageJson)), "scripts"),
          Entries(scriptDecisions)),
        "dependencies"),
      "devDependencies"),
    Entries(depDecisions))

\* harmonizedPackageJsons[m.path] = pkg, module after module
HarmonizedOf(modules, scriptDecisions, depDecisions) ==
  LET f[i \in 0..Len(modules)] ==
        IF i = 0 THEN EmptyObj
        ELSE SetProp(f[i-1], modules[i].path,
                     HarmonizeOne(modules[i], scriptDecisions, depDecisions))
  IN  f[Len(modules)]

\* the value analyzeAndBuildHarmonized returns, a being analyzeModules(modules)
BuiltOf(modules, a) ==
  [summary |-> a.summary, suggestions |-> a.suggestions, modulesView |-> a.modulesView,
   harmonizedPackageJsons |->
     HarmonizedOf(modules, ScriptDecisionsOf(a.suggestions.scripts),
                  DepDecisionsOf(a.suggestions.dependencies))]

analyzeAndBuildHarmonized(modules) == BuiltOf(modules, analyzeModules(modules))

(***************************************************************************)
(* The objects a call of analyzeAndBuildHarmonized works on                *)
(*                                                                         *)
(* An object is named by a pair; a manifest and its sub-maps count as one  *)
(* object.  Every assignment of iteration i of the loop has pkg, or a      *)
(* sub-map reached from pkg, as its target.                                *)
(***************************************************************************)
\* m.packageJson of the i-th module
ManifestObj(i) == <<"manifest", i>>

\* a loop whose pkg is the module's own manifest:  const pkg = m.packageJson || {}
PkgObjShared(m, i) == IF m.packageJson = NullJson THEN <<"pkg", i>> ELSE ManifestObj(i)

\* const pkg = JSON.parse(JSON.stringify(m.packageJson || {})): JSON.parse
\* builds a new object, which shares nothing with m.packageJson
PkgObj(m, i) == <<"pkg", i>>

\* the objects after the call: ManifestObj(i) holds what module i had unless
\* it was the pkg of an iteration, PkgObj(modules[i], i) holds what the loop
\* stored under the module's path
HeapAfter(modules, harmonized) ==
  [o \in {ManifestObj(i) : i \in 1..Len(modules)}
         \cup {PkgObj(modules[i], i) : i \in 1..Len(modules)} |->
     IF \E i \in 1..Len(modules) : o = PkgObj(modules[i], i)
     THEN GetOwn(harmonized,
                 modules[CHOOSE i \in 1..Len(modules) : o = PkgObj(modules[i], i)].path)
     ELSE modules[o[2]].packageJson]

\* the modules array after the call
ModulesAfter(modules, heap) ==
  [i \in 1..Len(modules) |->
     IF modules[i].packageJson = NullJson THEN modules[i]
     ELSE [modules[i] EXCEPT !.packageJson = heap[ManifestObj(i)]]]

(***************************************************************************)
(* A run of the reconciliation core inside the worker process              *)
(*                                                                         *)
(* The operators above are analyzeModules for manifests whose sub-maps     *)
(* hold strings under keys other than "__proto__", in a process whose      *)
(* Object.prototype carries the built-in members only.  The operators of   *)
(* this section drop the three restrictions: a value that is not a string  *)
(* is written as its JSON text after the mark "#" (no string of the pools   *)
(* starts with the mark), JSON.parse makes "__proto__" an own              *)
(* property of a sub-map, and proto holds the enumerable properties        *)
(* earlier runs of the process left on Object.prototype.                   *)
(***************************************************************************)
\* typeof v === "string"
IsString(v) == ~StartsWith(v, "#")

\* the puts of one sub-map: [map, key, name, value] per entry, in entry order
PutsOf(es, map, prefix, name) ==
  [i \in 1..Len(es) |->
     [map |-> map, key |-> prefix \o es[i][1], name |-> name, value |-> es[i][2]]]

\* the puts of the loop body of analyzeModules for module m
ModulePuts(m) ==
  PutsOf(Entries(SubMapOrEmpty(OrEmptyObj(m.packageJson), "scripts")), "scripts", "", m.name)
  \o PutsOf(Entries(SubMapOrEmpty(OrEmptyObj(m.packageJson), "dependencies")),
            "deps", "", m.name)
  \o PutsOf(Entries(SubMapOrEmpty(OrEmptyObj(m.packageJson), "devDependencies")),
            "deps", DevPrefix, m.name)

\* the puts of the loop of analyzeModules, module after module
LoopPuts(modules) ==
  LET f[i \in 0..Len(modules)] ==
        IF i = 0 THEN <<>> ELSE f[i-1] \o ModulePuts(modules[i])
  IN  f[Len(modules)]

\* if (!map[k]) map[k] = {};  map[k][name] = v;   in strict mode (the worker
\* is an ES module), on st = [scripts, deps, proto, threw].
\* map[k] is the own property if there is one; for k = "__proto__" it is
\* Object.prototype itself, so the write adds name to Object.prototype; for
\* a name an earlier run added to Object.prototype it is that run's value, and
\* the write to a property of a non-empty string is a TypeError; for a
\* built-in member it is a function and the write lands on the function.
PutThrough(st, put) ==
  IF st.threw THEN st
  ELSE IF HasOwn(st[put.map], put.key)
  THEN [st EXCEPT ![put.map] =
          SetProp(@, put.key, SetProp(GetOwn(@, put.key), put.name, put.value))]
  ELSE IF put.key = "__proto__"
  THEN [st EXCEPT !.proto = SetProp(@, put.name, put.value)]
  ELSE IF HasOwn(st.proto, put.key) /\ GetOwn(st.proto, put.key) # ""
  THEN [st EXCEPT !.threw = TRUE]
  ELSE IF ~HasOwn(st.proto, put.key) /\ put.key \in ObjectPrototypeKeys
  THEN st
  ELSE [st EXCEPT ![put.map] = SetProp(@, put.key, SetProp(EmptyObj, put.name, put.value))]

\* the locals of analyzeModules after its loop, in a process whose
\* Object.prototype carries proto0
LoopOutcome(puts, proto0) ==
  LET f[i \in 0..Len(puts)] ==
        IF i = 0
        THEN [scripts |-> EmptyObj, deps |-> EmptyObj, proto |-> proto0, threw |-> FALSE]
        ELSE PutThrough(f[i-1], puts[i])
  IN  f[Len(puts)]

\* uniqueValues.sort(compareVersionDesc) calls v.replace on every element of
\* an array of two or more: a TypeError if one of them is not a string
SortThrows(uniqueValues) ==
  Len(uniqueValues) >= 2 /\ \E i \in 1..Len(uniqueValues) : ~IsString(uniqueValues[i])

\* what a call of analyzeModules leaves: whether it threw, the result it
\* returned, and Object.prototype after it
RunOutcome(modules, st) ==
  IF \/ st.threw
     \/ \E i \in 1..Len(st.deps) : SortThrows(UniqueValues(Values(st.deps[i][2])))
  THEN [threw |-> TRUE, result |-> <<>>, proto |-> st.proto]
  ELSE [threw |-> FALSE, result |-> AnalysisOfMaps(modules, st.scripts, st.deps),
        proto |-> st.proto]

RunAnalysis(modules, proto0) == RunOutcome(modules, LoopOutcome(LoopPuts(modules), proto0))

\* the same for analyzeAndBuildHarmonized, o being the outcome of its call of
\* analyzeModules
BuiltRun(modules, o) ==
  [o EXCEPT !.result = IF o.threw THEN <<>> ELSE BuiltOf(modules, @)]

(***************************************************************************)
(* Small helpers of the handlers                                           *)
(***************************************************************************)
\* a guessModuleName that takes the last path segment, the file's own name
guessModuleNameLastPart(path) ==
  LET parts == SplitOn(path, "/")
  IN  IF Len(parts) >= 2 THEN parts[Len(parts)] ELSE path

\* guessModuleName(path)
guessModuleName(path) ==
  LET parts == SplitOn(path, "/")
  IN  IF Len(parts) >= 2 THEN parts[Len(parts) - 1]
      ELSE path    \* no "/" in path: replace("/package.json", "") finds nothing

\* inferModuleType(path)
inferModuleType(path) ==
  IF StartsWith(path, "apps/") THEN "app"
  ELSE IF StartsWith(path, "packages/") THEN "package"
  ELSE "unknown"

\* the decimal digits of a natural number (number-to-string conversion)
DigitChar(d) ==
  CASE d = 0 -> "0" [] d = 1 -> "1" [] d = 2 -> "2" [] d = 3 -> "3" [] d = 4 -> "4"
    [] d = 5 -> "5" [] d = 6 -> "6" [] d = 7 -> "7" [] d = 8 -> "8" [] d = 9 -> "9"

RECURSIVE IntToStr(_)
IntToStr(n) == IF n < 10 THEN DigitChar(n) ELSE IntToStr(n \div 10) \o DigitChar(n % 10)

\* encodeURIComponent on the path alphabet: "/" is escaped, letters, digits,
\* "." and "-" are kept
EncodeURIComponent(s) ==
  LET f[i \in 0..Len(s)] ==
        IF i = 0 THEN ""
        ELSE f[i-1] \o (IF CharAt(s, i) = "/" THEN "%2F" ELSE CharAt(s, i))
  IN  f[Len(s)]

\* a file's text is modelled by what JSON.parse makes of it: a document
\* <<"json", value>> parses to value, <<"text", t>> makes JSON.parse throw
IsJson(content) == content[1] = "json"

\* try { json = JSON.parse(content) } catch (e) { json = null }
ParseOrNull(content) == IF IsJson(content) THEN content[2] ELSE NullJson

\* json?.name || guessModuleName(file.path)
ModuleNameOf(json, path) ==
  IF json # NullJson /\ HasOwn(json, "name") /\ GetOwn(json, "name") # ""
  THEN GetOwn(json, "name")
  ELSE guessModuleName(path)

\* the element pushed on modules by the collection loop
ModuleWith(path, json) ==
  [path |-> path, name |-> ModuleNameOf(json, path), type |-> inferModuleType(path),
   packageJson |-> json]

ModuleOf(path, content) == ModuleWith(path, ParseOrNull(content))

\* the predicate of tree.tree.filter(...)
IsPackageFile(item, paths) ==
  /\ item.type = "blob"
  /\ EndsWith(item.path, "package.json")
  /\ \E j \in 1..Len(paths) : StartsWith(item.path, paths[j] \o "/")

PathsOf(items) == [i \in 1..Len(items) |-> items[i].path]

\* the paths of tree.tree.filter(blob && endsWith("package.json") && some prefix + "/")
PackageFiles(tree, paths) ==
  PathsOf(SelectSeq(tree, LAMBDA item : IsPackageFile(item, paths)))

(***************************************************************************)
(* Bounds and pools                                                        *)
(***************************************************************************)
MaxModules == 3     \* longest module list handed to the reconciliation core
MaxReqs    == 2     \* requests the worker handles during one process run
MaxClock   == 1     \* last value of the millisecond clock Date.now() reads
MaxComponents  == 2 \* longest components list of a preview request
MaxSuggestions == 2 \* longest suggestions list of a file apply request

\* the request contexts of the worker: two requests can be in flight at the
\* same time; a context whose response was sent takes the next request
Reqs == {1, 2}

\* Worker bindings
GITHUB_REPO == "o/r"

GITHUB_DEFAULT_BRANCH == "main"

\* the remote repository at the head of the default branch
BaseSha == "c0"

RepoTree ==
  << [path |-> "apps/web/package.json",    type |-> "blob"],
     [path |-> "apps/web",                 type |-> "tree"],
     [path |-> "apps/web/index.js",        type |-> "blob"],
     [path |-> "appsx/package.json",       type |-> "blob"],
     [path |-> "packages/ui/package.json", type |-> "blob"],
     [path |-> "package.json",             type |-> "blob"] >>

WebManifest ==
  << <<"name", "web">>,
     <<"scripts", << <<"build", "tsc">> >> >>,
     <<"dependencies", << <<"react", "^17.0.0">> >> >> >>

UiManifest ==
  << <<"scripts", << <<"build", "vite build">> >> >>,
     <<"dependencies", << <<"react", "^18.2.0">> >> >>,
     <<"devDependencies", << <<"typescript", "5.0.0">> >> >> >>

\* the blob paths of a tree listing
BlobPaths(tree) == {tree[i].path : i \in {j \in 1..Len(tree) : tree[j].type = "blob"}}

\* what GET /contents/<path> decodes to
RepoContent(path) ==
  CASE path = "apps/web/package.json"    -> <<"json", WebManifest>>
    [] path = "packages/ui/package.json" -> <<"json", UiManifest>>
    [] path \in {"apps/api/package.json", "apps/api/old-package.json",
                 "app/package.json"}     -> <<"json", UiManifest>>
    [] path = "apps/a/package.json"      ->
         <<"json", << <<"scripts", << <<"build", "tsc">> >> >>,
                      <<"devDependencies", << <<"constructor", "1.0.0">> >> >> >> >>
    [] path = "apps/b/package.json"      ->
         <<"json", << <<"scripts", << <<"build", "vite">> >> >>,
                      <<"devDependencies", << <<"constructor", "2.0.0">> >> >> >> >>
    [] path = "apps/c/package.json"      -> <<"json", EmptyObj>>
    [] OTHER                             -> <<"text", "not json">>

\* a second repository: a saved copy next to a manifest, a directory whose
\* own name ends like a manifest's, a root that is a prefix of another root
ApiTree ==
  << [path |-> "apps/api/package.json",     type |-> "blob"],
     [path |-> "apps/api/old-package.json", type |-> "blob"],
     [path |-> "apps/api/server.js",        type |-> "blob"],
     [path |-> "packages/package.json",     type |-> "tree"],
     [path |-> "app/package.json",          type |-> "blob"] >>

\* a third repository: two modules that disagree on a script and on the
\* version of the development dependency "constructor", and a third module
ToolTree ==
  << [path |-> "apps/a/package.json", type |-> "blob"],
     [path |-> "apps/b/package.json", type |-> "blob"],
     [path |-> "apps/c/package.json", type |-> "blob"] >>

CollectTrees == {RepoTree, ApiTree, ToolTree}

\* the file contents of a repository, the files of broken being unparseable
FilesOf(tree, broken) ==
  [p \in BlobPaths(tree) |-> IF p \in broken THEN <<"text", "{ not json">> ELSE RepoContent(p)]

\* body?.paths || ["apps", "packages"]: the requests leave paths out
DefaultPaths == <<"apps", "packages">>

PathChoices == {DefaultPaths}

\* values of body.paths
CollectPathChoices ==
  {DefaultPaths, <<"apps">>, <<"app">>, <<"apps", "apps/web">>, <<>>}

\* statuses of a failing remote call, with the body text of the response
FailStatuses == {422, 500}

RespText(status) == IF status = 422 THEN "Validation Failed" ELSE "Server Error"

\* module lists for the reconciliation core
NamePool == {"ui", "7"}

ScriptValues == {"tsc", "vite", "1"}

ScriptManifests ==
  {NullJson, EmptyObj} \cup
  {<< <<"scripts", << <<"build", v>> >> >> >> : v \in ScriptValues}

VersionValues == {"^1.0.0", "1.0", "2.0.0", ""}

DepManifests ==
  {EmptyObj} \cup
  {<< <<"dependencies", << <<"react", v>> >> >> >> : v \in VersionValues} \cup
  {<< <<"devDependencies", << <<"react", "2.0.0">> >> >> >>} \cup
  {<< <<"devDependencies", << <<"constructor", v>> >> >> >> : v \in {"1.0.0", "2.0.0"}}

\* manifests with a "__proto__" script key, with a number for a version
\* ("#18" is the number 18) and with a version that has no digits
RunManifests ==
  {<< <<"scripts", << <<"build", "tsc">> >> >> >>,
   << <<"scripts", << <<"__proto__", "x">> >> >> >>,
   << <<"dependencies", << <<"react", "#18">> >> >> >>,
   << <<"dependencies", << <<"react", "^18.0.0">> >> >> >>,
   << <<"dependencies", << <<"react", "latest">> >> >> >>}

\* the i-th collected module lives at its own path
PathOfSlot(i) == "apps/m" \o IntToStr(i) \o "/package.json"

ModuleLists(manifests) ==
  UNION {
    {[i \in 1..n |-> [path |-> PathOfSlot(i), name |-> nm[i],
                      type |-> inferModuleType(PathOfSlot(i)), packageJson |-> mf[i]]] :
       nm \in [1..n -> NamePool], mf \in [1..n -> manifests]} :
    n \in 1..MaxModules}

(***************************************************************************)
(* State                                                                   *)
(***************************************************************************)
VARIABLES
  rmodules,   \* reconciliation core: the collected module list
  rphase,     \* reconciliation core: "collected", "planned", "applied", "rerun"
  rplan,      \* result of analyzeModules(rmodules)
  rapply,     \* result of analyzeAndBuildHarmonized(rmodules)
  rsecond,    \* result of analyzeAndBuildHarmonized on the harmonized modules
  proto,      \* the properties the process's runs have added to Object.prototype
  now,        \* the value Date.now() returned last
  started,    \* number of requests dispatched so far
  req,        \* per request: handler position, locals, remote-call log, response
  remote,     \* remote repository objects: refs, blobs, trees, commits, pulls
  fu          \* file-unification backend: its request, its progress, its writes

vars == <<rmodules, rphase, rplan, rapply, rsecond, proto, now, started, req, remote, fu>>

reconVars == <<rmodules, rphase, rplan, rapply, rsecond, proto>>

procVars == <<now, started, req, remote, fu>>

NoResult == [summary |-> <<>>, suggestions |-> <<>>, modulesView |-> <<>>]

NoBuilt == [summary |-> <<>>, suggestions |-> <<>>, modulesView |-> <<>>,
            harmonizedPackageJsons |-> <<>>]

IdleReq ==
  [id |-> 0, kind |-> "idle", pc |-> "idle", paths |-> <<>>, sha |-> "", files |-> <<>>,
   modules |-> <<>>, built |-> NoBuilt, branchName |-> "", entries |-> <<>>,
   treeEntries |-> <<>>, newTree |-> "", commit |-> "", log |-> <<>>,
   response |-> [status |-> 0]]

\* the remote repository before any request: the default branch with its
\* recursive tree listing and file contents, and no object of the worker's
RemoteOf(tree, files) ==
  [refs |-> {[name |-> GITHUB_DEFAULT_BRANCH, sha |-> BaseSha]},
   tree |-> tree, files |-> files,
   blobs |-> {}, trees |-> {}, commits |-> {}, pulls |-> {}]

EmptyRemote == RemoteOf(RepoTree, [p \in BlobPaths(RepoTree) |-> RepoContent(p)])

\* the file-unification backend before its request (target is <<>> for an
\* undefined target component, else the one-element sequence of the component)
NoFileRequest ==
  [impl |-> "none", endpoint |-> "none", pc |-> "idle", openai |-> "ok",
   components |-> <<>>, target |-> <<>>, suggestions |-> <<>>,
   diffs |-> <<>>, failed |-> FALSE, written |-> {}, response |-> [status |-> 0]]

ProcIdleWith(rem) ==
  /\ now = 0 /\ started = 0 /\ req = [r \in Reqs |-> IdleReq] /\ remote = rem
  /\ fu = NoFileRequest

ProcIdle == ProcIdleWith(EmptyRemote)

ReconIdle ==
  /\ rmodules = <<>> /\ rphase = "off"
  /\ rplan = NoResult /\ rapply = NoBuilt /\ rsecond = NoBuilt /\ proto = EmptyObj

(***************************************************************************)
(* SpecRecon: the reconciliation core on bounded module lists              *)
(***************************************************************************)
InitRecon ==
  /\ rmodules \in ModuleLists(ScriptManifests) \cup ModuleLists(DepManifests)
  /\ rphase = "collected"
  /\ rplan = NoResult /\ rapply = NoBuilt /\ rsecond = NoBuilt /\ proto = EmptyObj
  /\ ProcIdle

\* a plan run: analyzeModules on the collected modules
Reconcile ==
  /\ rphase = "collected"
  /\ rplan' = analyzeModules(rmodules)
  /\ rphase' = "planned"
  /\ UNCHANGED <<rmodules, rapply, rsecond, proto, procVars>>

\* an apply run: analyzeAndBuildHarmonized on the collected modules, and
\* the modules array as the call leaves it
Harmonize ==
  /\ rphase = "planned"
  /\ rapply' = analyzeAndBuildHarmonized(rmodules)
  /\ rmodules' = ModulesAfter(rmodules, HeapAfter(rmodules, rapply'.harmonizedPackageJsons))
  /\ rphase' = "applied"
  /\ UNCHANGED <<rplan, rsecond, proto, procVars>>

\* the modules a later run collects once the harmonized manifests are the
\* repository content: same paths, names and order
HarmonizedModules(modules, harmonized) ==
  [i \in 1..Len(modules) |->
     [modules[i] EXCEPT !.packageJson = GetOwn(harmonized, modules[i].path)]]

\* a second apply run, on the harmonized manifests
Rerun ==
  /\ rphase = "applied"
  /\ rsecond' = analyzeAndBuildHarmonized(
                  HarmonizedModules(rmodules, rapply.harmonizedPackageJsons))
  /\ rphase' = "rerun"
  /\ UNCHANGED <<rmodules, rplan, rapply, proto, procVars>>

NextRecon == Reconcile \/ Harmonize \/ Rerun

SpecRecon == InitRecon /\ [][NextRecon]_vars

(***************************************************************************)
(* SpecRuns: a plan request and then an apply request for the same module  *)
(* list, handled by one worker process                                     *)
(*                                                                         *)
(* The module names are directory names; no name is a script value, a      *)
(* dependency name, "scripts", "dependencies" or "devDependencies", so     *)
(* that the writes of PutThrough are the only accesses that meet a         *)
(* property added to Object.prototype.                                     *)
(***************************************************************************)
InitRuns ==
  /\ rmodules \in
       UNION {
         {[i \in 1..n |-> [path |-> PathOfSlot(i), name |-> nm[i],
                           type |-> inferModuleType(PathOfSlot(i)), packageJson |-> mf[i]]] :
            nm \in [1..n -> {"ui", "build"}], mf \in [1..n -> RunManifests]} :
         n \in 1..MaxModules}
  /\ rphase = "collected"
  /\ rplan = NoResult /\ rapply = NoBuilt /\ rsecond = NoBuilt /\ proto = EmptyObj
  /\ ProcIdle

\* a plan request: analyzeModules(modules)
PlanRun ==
  /\ rphase = "collected"
  /\ rplan' = RunAnalysis(rmodules, proto)
  /\ proto' = rplan'.proto
  /\ rphase' = "planned"
  /\ UNCHANGED <<rmodules, rapply, rsecond, procVars>>

\* an apply request: analyzeAndBuildHarmonized(modules)
ApplyRun ==
  /\ rphase = "planned"
  /\ rapply' = BuiltRun(rmodules, RunAnalysis(rmodules, proto))
  /\ proto' = rapply'.proto
  /\ rphase' = "applied"
  /\ UNCHANGED <<rmodules, rplan, rsecond, procVars>>

NextRuns == PlanRun \/ ApplyRun

SpecRuns == InitRuns /\ [][NextRuns]_vars

(***************************************************************************)
(* Spec: the plan and apply handlers against the remote repository         *)
(***************************************************************************)
\* const [owner, repo] = env.GITHUB_REPO.split("/")
RepoPath == LET p == SplitOn(GITHUB_REPO, "/") IN "/repos/" \o p[1] \o "/" \o p[2]

Call(op, method, path) == [op |-> op, method |-> method, path |-> path]

\* the two reads of getRepoMeta
RepoMetaCalls ==
  << Call("GetRepo", "GET", RepoPath),
     Call("GetBranch", "GET", RepoPath \o "/branches/" \o GITHUB_DEFAULT_BRANCH) >>

\* getGitTree(env, sha): getRepoMeta again, then the recursive tree read
GitTreeCalls(sha) ==
  RepoMetaCalls \o
  << Call("GetTree", "GET", RepoPath \o "/git/trees/" \o sha \o "?recursive=1") >>

\* a getFileContent that writes the file back instead of reading it
FileContentCallsPut(path) ==
  RepoMetaCalls \o
  << Call("GetContents", "PUT", RepoPath \o "/contents/" \o EncodeURIComponent(path)) >>

\* getFileContent(env, path): getRepoMeta again, then the contents read
FileContentCalls(path) ==
  RepoMetaCalls \o
  << Call("GetContents", "GET", RepoPath \o "/contents/" \o EncodeURIComponent(path)) >>

\* a githubRequest whose Error message drops the status and the response body
GithubErrorNoStatus(path, status) ==
  "GitHub API error for " \o path

\* githubRequest: the message of the Error thrown on a non-ok response
GithubError(path, status) ==
  "GitHub API error for " \o path \o ": " \o IntToStr(status) \o " " \o RespText(status)

Logged(c, status) == [op |-> c.op, method |-> c.method, path |-> c.path, status |-> status]

\* the ways a sequence of awaited githubRequest calls can go: all succeed, or
\* the j-th is the first to get a non-ok response and throws
Outcomes(calls, canSucceed) ==
  {[ok |-> TRUE, log |-> [i \in 1..Len(calls) |-> Logged(calls[i], 200)], error |-> ""] :
     x \in IF canSucceed THEN {1} ELSE {}}
  \cup
  {[ok |-> FALSE,
    log |-> [i \in 1..j |-> Logged(calls[i], IF i = j THEN st ELSE 200)],
    error |-> GithubError(calls[j].path, st)] :
     j \in 1..Len(calls), st \in FailStatuses}

\* catch (e) { return jsonResponse({ok: false, error: e.message}, 500) }
ErrorResponse(message) == [status |-> 500, body |-> [ok |-> FALSE, error |-> message]]

\* the request record after the outcome o of its current remote calls: the
\* calls are logged, and a thrown error ends the handler in its catch block
AfterCalls(q, o, next) ==
  IF o.ok THEN [next EXCEPT !.log = q.log \o o.log]
  ELSE [q EXCEPT !.log = q.log \o o.log, !.pc = "done", !.response = ErrorResponse(o.error)]

Init == ReconIdle /\ ProcIdle

\* the locals of a handler that has just read paths from the request body
Started(id, kind, paths) ==
  [IdleReq EXCEPT !.id = id, !.kind = kind, !.pc = "meta", !.paths = paths]

\* fetch() dispatches a POST /harmonize/plan or /harmonize/apply
Start(r) ==
  /\ req[r].pc \in {"idle", "done"}
  /\ started < MaxReqs
  /\ started' = started + 1
  /\ \E kind \in {"plan", "apply"}, paths \in PathChoices :
       req' = [req EXCEPT ![r] = Started(started + 1, kind, paths)]
  /\ UNCHANGED <<now, remote, reconVars, fu>>

\* const repoMeta = await getRepoMeta(env)
GetRepoMeta(r) ==
  /\ req[r].pc = "meta"
  /\ \E o \in Outcomes(RepoMetaCalls, TRUE) :
       req' = [req EXCEPT ![r] =
                 AfterCalls(@, o, [@ EXCEPT !.pc = "tree",
                                            !.sha = (CHOOSE b \in remote.refs :
                                                       b.name = GITHUB_DEFAULT_BRANCH).sha])]
  /\ UNCHANGED <<now, started, remote, reconVars, fu>>

\* the pc after the collection loop's condition is tested
AfterCollect(files, modules) == IF Len(modules) < Len(files) THEN "content" ELSE "analyze"

\* the request record once the tree is read and filtered
WithFiles(q, files) == [q EXCEPT !.files = files, !.pc = AfterCollect(files, <<>>)]

\* const tree = await getGitTree(env, sha); const packageFiles = tree.tree.filter(...)
GetGitTree(r) ==
  /\ req[r].pc = "tree"
  /\ \E o \in Outcomes(GitTreeCalls(req[r].sha), TRUE) :
       req' = [req EXCEPT ![r] =
                 AfterCalls(@, o, WithFiles(@, PackageFiles(remote.tree, @.paths)))]
  /\ UNCHANGED <<now, started, remote, reconVars, fu>>

\* the request record once one more module is pushed
WithModules(q, modules) ==
  [q EXCEPT !.modules = modules, !.pc = AfterCollect(q.files, modules)]

\* the file the collection loop is at
CurrentFile(q) == q.files[Len(q.modules) + 1]

\* one iteration of the collection loop: getFileContent, JSON.parse, push
GetFileContent(r) ==
  /\ req[r].pc = "content"
  /\ \E o \in Outcomes(FileContentCalls(CurrentFile(req[r])), TRUE) :
       req' = [req EXCEPT ![r] =
                 AfterCalls(@, o,
                            WithModules(@, Append(@.modules,
                                                  ModuleOf(CurrentFile(@),
                                                           remote.files[CurrentFile(@)]))))]
  /\ UNCHANGED <<now, started, remote, reconVars, fu>>

\* the success response of handleHarmonizePlan, a being the analysis
PlanResponse(a) ==
  [status |-> 200,
   body |-> [ok |-> TRUE, mode |-> "plan", summary |-> a.summary,
             suggestions |-> a.suggestions, modules |-> a.modulesView]]

\* handleHarmonizePlan after collection: analyzeModules, then the response
PlanRespond(r) ==
  /\ req[r].pc = "analyze" /\ req[r].kind = "plan"
  /\ req' = [req EXCEPT ![r] =
               [@ EXCEPT !.pc = "done",
                         !.response = PlanResponse(analyzeModules(req[r].modules))]]
  /\ UNCHANGED <<now, started, remote, reconVars, fu>>

BranchPrefix == "asa-code-harmonizer-"

\* `asa-code-harmonizer-${Date.now()}`
BranchNameAt(t) == BranchPrefix \o IntToStr(t)

\* the request record once the harmonized manifests and the branch name exist
WithBuilt(q, built, t) ==
  [q EXCEPT !.pc = "branch", !.built = built,
            !.entries = Entries(built.harmonizedPackageJsons),
            !.branchName = BranchNameAt(t)]

\* handleHarmonizeApply after collection: analyzeAndBuildHarmonized, then
\* the branch name from Date.now(): the clock reads t, at or after the value
\* it had when the worker last read it
ApplyAnalyze(r) ==
  /\ req[r].pc = "analyze" /\ req[r].kind = "apply"
  /\ \E t \in now..MaxClock :
       /\ now' = t
       /\ req' = [req EXCEPT ![r] = WithBuilt(@, analyzeAndBuildHarmonized(@.modules), t)]
  /\ UNCHANGED <<started, remote, reconVars, fu>>

(***************************************************************************)
(* applyChangesAsPR: one action per awaited remote write                   *)
(***************************************************************************)
\* JSON.stringify(pkgJson, null, 2) + "\n": a document that parses back to
\* the manifest in enumeration order, indented by 2, ending in a newline
PrettyPrint(pkgJson) == <<"json", DeepCopy(pkgJson), 2, "\n">>

\* the object ids the remote hands back to request id
BlobSha(id, i) == "blob" \o IntToStr(id) \o "-" \o IntToStr(i)

TreeSha(id) == "tree" \o IntToStr(id)

CommitSha(id) == "commit" \o IntToStr(id)

HasRef(rem, name) == \E b \in rem.refs : b.name = name

RefSha(rem, name) == (CHOOSE b \in rem.refs : b.name = name).sha

\* an applyChangesAsPR that moves the branch ref before it creates the commit
PipelineNextRefFirst(step, q) ==
  CASE step = "branch" -> IF Len(q.entries) > 0 THEN "blob" ELSE "mktree"
    [] step = "blob"   -> IF Len(q.treeEntries) < Len(q.entries) THEN "blob" ELSE "mktree"
    [] step = "mktree" -> "ref"
    [] step = "ref"    -> "commit"
    [] step = "commit" -> "pr"
    [] step = "pr"     -> "done"

\* the statement order of applyChangesAsPR: the step after a successful one;
\* q is the request record once the step's result is stored
PipelineNext(step, q) ==
  CASE step = "branch" -> IF Len(q.entries) > 0 THEN "blob" ELSE "mktree"
    [] step = "blob"   -> IF Len(q.treeEntries) < Len(q.entries) THEN "blob" ELSE "mktree"
    [] step = "mktree" -> "commit"
    [] step = "commit" -> "ref"
    [] step = "ref"    -> "pr"
    [] step = "pr"     -> "done"

\* q with its pc moved past step
Advance(q, step) == [q EXCEPT !.pc = PipelineNext(step, q)]

\* 1) POST /git/refs {ref: refs/heads/<branchName>, sha: defaultBranchSha};
\* the remote refuses to create a ref that exists
CreateBranch(r) ==
  /\ req[r].pc = "branch"
  /\ LET q == req[r]
     IN  \E o \in Outcomes(<<Call("CreateBranch", "POST", RepoPath \o "/git/refs")>>,
                           ~HasRef(remote, q.branchName)) :
           /\ req' = [req EXCEPT ![r] =
                        AfterCalls(q, o, Advance(q, "branch"))]
           /\ remote' = IF o.ok
                        THEN [remote EXCEPT !.refs = @ \cup {[name |-> q.branchName,
                                                              sha |-> q.sha]}]
                        ELSE remote
  /\ UNCHANGED <<now, started, reconVars, fu>>

\* 2) one iteration of the blob loop: POST /git/blobs, push the tree entry
CreateBlob(r) ==
  /\ req[r].pc = "blob"
  /\ LET q     == req[r]
         i     == Len(q.treeEntries) + 1
         path  == q.entries[i][1]
         blob  == [sha |-> BlobSha(q.id, i), content |-> PrettyPrint(q.entries[i][2]),
                   encoding |-> "utf-8"]
         te    == Append(q.treeEntries,
                         [path |-> path, mode |-> "100644", type |-> "blob", sha |-> blob.sha])
     IN  \E o \in Outcomes(<<Call("CreateBlob", "POST", RepoPath \o "/git/blobs")>>, TRUE) :
           /\ req' = [req EXCEPT ![r] =
                        AfterCalls(q, o, Advance([q EXCEPT !.treeEntries = te], "blob"))]
           /\ remote' = IF o.ok THEN [remote EXCEPT !.blobs = @ \cup {blob}] ELSE remote
  /\ UNCHANGED <<now, started, reconVars, fu>>

\* a tree step that posts its entries without a base_tree
CreateTreeNoBase(r) ==
  /\ req[r].pc = "mktree"
  /\ LET q == req[r]
     IN  \E o \in Outcomes(<<Call("CreateTree", "POST", RepoPath \o "/git/trees")>>, TRUE) :
           /\ req' = [req EXCEPT ![r] =
                        AfterCalls(q, o, Advance([q EXCEPT !.newTree = TreeSha(q.id)], "mktree"))]
           /\ remote' = IF o.ok
                        THEN [remote EXCEPT !.trees = @ \cup {[sha |-> TreeSha(q.id),
                                                               base_tree |-> "",
                                                               tree |-> q.treeEntries]}]
                        ELSE remote
  /\ UNCHANGED <<now, started, reconVars, fu>>

\* POST /git/trees {base_tree: defaultBranchSha, tree: treeEntries}
CreateTree(r) ==
  /\ req[r].pc = "mktree"
  /\ LET q == req[r]
     IN  \E o \in Outcomes(<<Call("CreateTree", "POST", RepoPath \o "/git/trees")>>, TRUE) :
           /\ req' = [req EXCEPT ![r] =
                        AfterCalls(q, o, Advance([q EXCEPT !.newTree = TreeSha(q.id)], "mktree"))]
           /\ remote' = IF o.ok
                        THEN [remote EXCEPT !.trees = @ \cup {[sha |-> TreeSha(q.id),
                                                               base_tree |-> q.sha,
                                                               tree |-> q.treeEntries]}]
                        ELSE remote
  /\ UNCHANGED <<now, started, reconVars, fu>>

\* a commit step whose non-ok response is not thrown: the pipeline goes on to
\* the ref update with the sha it expected
CreateCommitNoThrow(r) ==
  /\ req[r].pc = "commit"
  /\ LET q == req[r]
     IN  \E o \in Outcomes(<<Call("CreateCommit", "POST", RepoPath \o "/git/commits")>>, TRUE) :
           /\ req' = [req EXCEPT ![r] =
                        [Advance([q EXCEPT !.commit = CommitSha(q.id)], "commit")
                           EXCEPT !.log = q.log \o o.log]]
           /\ remote' = IF o.ok
                        THEN [remote EXCEPT !.commits = @ \cup {[sha |-> CommitSha(q.id),
                                                                 tree |-> q.newTree,
                                                                 parents |-> <<q.sha>>]}]
                        ELSE remote
  /\ UNCHANGED <<now, started, reconVars, fu>>

\* 3) POST /git/commits {message, tree: newTree.sha, parents: [defaultBranchSha]}
CreateCommit(r) ==
  /\ req[r].pc = "commit"
  /\ LET q == req[r]
     IN  \E o \in Outcomes(<<Call("CreateCommit", "POST", RepoPath \o "/git/commits")>>, TRUE) :
           /\ req' = [req EXCEPT ![r] =
                        AfterCalls(q, o, Advance([q EXCEPT !.commit = CommitSha(q.id)], "commit"))]
           /\ remote' = IF o.ok
                        THEN [remote EXCEPT !.commits = @ \cup {[sha |-> CommitSha(q.id),
                                                                 tree |-> q.newTree,
                                                                 parents |-> <<q.sha>>]}]
                        ELSE remote
  /\ UNCHANGED <<now, started, reconVars, fu>>

\* 4) PATCH /git/refs/heads/<branchName> {sha: commit.sha, force: true};
\* the remote cannot update a ref that does not exist
UpdateRef(r) ==
  /\ req[r].pc = "ref"
  /\ LET q == req[r]
     IN  \E o \in Outcomes(<<Call("UpdateRef", "PATCH",
                                  RepoPath \o "/git/refs/heads/" \o q.branchName)>>,
                           HasRef(remote, q.branchName)) :
           /\ req' = [req EXCEPT ![r] = AfterCalls(q, o, Advance(q, "ref"))]
           /\ remote' = IF o.ok
                        THEN [remote EXCEPT !.refs =
                                {b \in @ : b.name # q.branchName}
                                \cup {[name |-> q.branchName, sha |-> q.commit]}]
                        ELSE remote
  /\ UNCHANGED <<now, started, reconVars, fu>>

\* 5) POST /pulls {title, head: branchName, base: defaultBranchName, body};
\* then handleHarmonizeApply returns its success response
OpenPullRequest(r) ==
  /\ req[r].pc = "pr"
  /\ LET q      == req[r]
         number == Cardinality(remote.pulls) + 1
         resp   == [status |-> 200,
                    body |-> [ok |-> TRUE, mode |-> "apply", branch |-> q.branchName,
                              summary |-> q.built.summary,
                              suggestions |-> q.built.suggestions,
                              modules |-> q.built.modulesView,
                              pr |-> [prNumber |-> number, commitSha |-> q.commit]]]
     IN  \E o \in Outcomes(<<Call("OpenPullRequest", "POST", RepoPath \o "/pulls")>>, TRUE) :
           /\ req' = [req EXCEPT ![r] =
                        AfterCalls(q, o, Advance([q EXCEPT !.response = resp], "pr"))]
           /\ remote' = IF o.ok
                        THEN [remote EXCEPT !.pulls = @ \cup {[number |-> number,
                                                               head |-> q.branchName,
                                                               base |-> GITHUB_DEFAULT_BRANCH]}]
                        ELSE remote
  /\ UNCHANGED <<now, started, reconVars, fu>>

Next ==
  \/ \E r \in Reqs : Start(r)
  \/ \E r \in Reqs : GetRepoMeta(r)
  \/ \E r \in Reqs : GetGitTree(r)
  \/ \E r \in Reqs : GetFileContent(r)
  \/ \E r \in Reqs : PlanRespond(r)
  \/ \E r \in Reqs : ApplyAnalyze(r)
  \/ \E r \in Reqs : CreateBranch(r)
  \/ \E r \in Reqs : CreateBlob(r)
  \/ \E r \in Reqs : CreateTree(r)
  \/ \E r \in Reqs : CreateCommit(r)
  \/ \E r \in Reqs : UpdateRef(r)
  \/ \E r \in Reqs : OpenPullRequest(r)

Spec == Init /\ [][Next]_vars

(***************************************************************************)
(* SpecRace: the handlers while another actor pushes to the base branch    *)
(***************************************************************************)
NextSha == "c1"

\* the file contents at the commit the other actor pushes: the manifest of
\* apps/web has moved to react 18
ContentAt(sha, path) ==
  IF sha = NextSha /\ path = "apps/web/package.json"
  THEN <<"json", << <<"name", "web">>,
                    <<"scripts", << <<"build", "tsc">> >> >>,
                    <<"dependencies", << <<"react", "^18.2.0">> >> >> >> >>
  ELSE RepoContent(path)

\* another actor pushes commit NextSha to the base branch.  GET /branches/<b>
\* answers with the branch's head and GET /contents/<path>, which the worker
\* sends without a ref, with the file at that head; the tree of an earlier
\* commit stays readable by its sha.
AdvanceBase ==
  /\ RefSha(remote, GITHUB_DEFAULT_BRANCH) = BaseSha
  /\ remote' = [remote EXCEPT
                  !.refs = {b \in @ : b.name # GITHUB_DEFAULT_BRANCH}
                           \cup {[name |-> GITHUB_DEFAULT_BRANCH, sha |-> NextSha]},
                  !.files = [p \in DOMAIN @ |-> ContentAt(NextSha, p)]]
  /\ UNCHANGED <<now, started, req, reconVars, fu>>

NextRace == Next \/ AdvanceBase

SpecRace == Init /\ [][NextRace]_vars

(***************************************************************************)
(* SpecCollect: one request's collection over varied repositories          *)
(***************************************************************************)
InitCollect ==
  /\ ReconIdle
  /\ \E tree \in CollectTrees : \E broken \in SUBSET BlobPaths(tree) :
       ProcIdleWith(RemoteOf(tree, FilesOf(tree, broken)))

\* fetch() dispatches the request, whose body gives paths
StartCollect ==
  /\ req[1].pc = "idle"
  /\ started' = started + 1
  /\ \E kind \in {"plan", "apply"}, paths \in CollectPathChoices :
       req' = [req EXCEPT ![1] = Started(started + 1, kind, paths)]
  /\ UNCHANGED <<now, remote, reconVars, fu>>

NextCollect ==
  \/ StartCollect
  \/ GetRepoMeta(1)
  \/ GetGitTree(1)
  \/ GetFileContent(1)
  \/ PlanRespond(1)
  \/ ApplyAnalyze(1)

SpecCollect == InitCollect /\ [][NextCollect]_vars

(***************************************************************************)
(* SpecFiles: the file-unification backend                                 *)
(*                                                                         *)
(* The repository holds two implementations of the backend: the            *)
(* TypeScript server ("ts", /api/code-harmonizer/...) and backend/server.js *)
(* ("js", /api/harmonize/...).  One request is followed from its arrival   *)
(* to its response.  A path is the sequence of its segments below "/".     *)
(***************************************************************************)
\* process.env.REPO_ROOT: "/repo"
REPO_ROOT == <<"repo">>

\* the code and other files below REPO_ROOT, in readdir order
RepoFiles ==
  << [dir |-> <<"repo", "apps", "a">>, rel |-> "index.ts", content |-> "A"],
     [dir |-> <<"repo", "apps", "a">>, rel |-> "util.ts",  content |-> "U"],
     [dir |-> <<"repo", "apps", "a">>, rel |-> "run.mjs",  content |-> "M"],
     [dir |-> <<"repo", "apps", "a">>, rel |-> "notes.md", content |-> "N"],
     [dir |-> <<"repo", "apps", "b">>, rel |-> "index.ts", content |-> "A"],
     [dir |-> <<"repo", "apps", "b">>, rel |-> "run.mjs",  content |-> "M2"],
     [dir |-> <<"repo", "apps", "b">>, rel |-> "notes.md", content |-> "N"] >>

\* path.join(base, p): the segments of p appended to base, "" and "." dropped
\* and ".." removing the segment before it (none at the root)
PathJoin(base, p) ==
  LET segs == SplitOn(p, "/")
      f[i \in 0..Len(segs)] ==
        IF i = 0 THEN base
        ELSE IF segs[i] \in {"", "."} THEN f[i-1]
        ELSE IF segs[i] = ".."
             THEN SubSeq(f[i-1], 1, IF Len(f[i-1]) = 0 THEN 0 ELSE Len(f[i-1]) - 1)
             ELSE Append(f[i-1], segs[i])
  IN  f[Len(segs)]

\* /\.(ts|tsx|js|jsx|mjs|cjs)$/.test(name)  and  /\.(ts|js|tsx|jsx)$/.test(name)
IsCodeFile(impl, name) ==
  \E ext \in (IF impl = "ts" THEN {".ts", ".tsx", ".js", ".jsx", ".mjs", ".cjs"}
              ELSE {".ts", ".js", ".tsx", ".jsx"}) : EndsWith(name, ext)

\* listFilesRecursive(dir) / listRecursive(dir) for a directory that exists
ListFiles(impl, dir) ==
  SelectSeq(RepoFiles, LAMBDA f : f.dir = dir /\ IsCodeFile(impl, f.rel))

\* fs.readdir(dir) rejects with ENOENT
Missing(dir) == \A i \in 1..Len(RepoFiles) : RepoFiles[i].dir # dir

\* the entries pushed to the map, component after component
Contributions(impl, components) ==
  LET f[i \in 0..Len(components)] ==
        IF i = 0 THEN <<>>
        ELSE f[i-1] \o
             [j \in 1..Len(ListFiles(impl, PathJoin(REPO_ROOT, components[i].path))) |->
                [component |-> components[i].name,
                 rel |-> ListFiles(impl, PathJoin(REPO_ROOT, components[i].path))[j].rel,
                 content |->
                   ListFiles(impl, PathJoin(REPO_ROOT, components[i].path))[j].content]]
  IN  f[Len(components)]

\* the diff pushed for one relative path: rawContents[e.component] = content
DiffOf(file, entries) ==
  [file |-> file,
   components |-> [i \in 1..Len(entries) |-> entries[i].component],
   rawContents |->
     LET f[i \in 0..Len(entries)] ==
           IF i = 0 THEN EmptyObj
           ELSE SetProp(f[i-1], entries[i].component, entries[i].content)
     IN  f[Len(entries)]]

\* the map entries with more than one element, in insertion order of the map
DiffsOf(contribs, rels) ==
  [i \in 1..Len(rels) |-> DiffOf(rels[i], SelectSeq(contribs, LAMBDA c : c.rel = rels[i]))]

KeptRels(contribs) ==
  SelectSeq(UniqueValues([i \in 1..Len(contribs) |-> contribs[i].rel]),
            LAMBDA rel : Len(SelectSeq(contribs, LAMBDA c : c.rel = rel)) > 1)

collectComponentDiffs(impl, components) ==
  DiffsOf(Contributions(impl, components), KeptRels(Contributions(impl, components)))

\* if (!openai) return diffs.map(...)   (the en dash of the two texts is
\* written "-")
Placeholders(diffs) ==
  [i \in 1..Len(diffs) |->
     [file |-> diffs[i].file,
      unifiedCode |-> "// OpenAI API key missing - manual harmonization needed.\n",
      rationale |-> "OpenAI disabled - please manually unify this file."]]

\* the suggestions pushed when every completion call returns: the ts server
\* parses the reply {"unifiedCode": "merged", "rationale": "why"}, server.js
\* reads .unified and .why of the reply string, which are undefined
Completions(impl, diffs) ==
  [i \in 1..Len(diffs) |->
     IF impl = "ts"
     THEN [file |-> diffs[i].file, unifiedCode |-> "merged", rationale |-> "why"]
     ELSE [file |-> diffs[i].file, unified |-> "undefined", why |-> "undefined"]]

\* res.status(status).json({ok: false, error}) in the ts server;
\* res.json({ok: false, error}), hence status 200, in server.js
FailResponse(impl, status, message) ==
  [status |-> IF impl = "ts" THEN status ELSE 200,
   body |-> [ok |-> FALSE, error |-> message]]

ComponentPool ==
  {[name |-> "a", path |-> "apps/a"], [name |-> "b", path |-> "apps/b"],
   [name |-> "a", path |-> "apps/b"], [name |-> "m", path |-> "apps/missing"]}

SuggestionFiles == {"index.ts", "lib/../index.ts", "../b/index.ts", "/etc/passwd"}

\* the requests: a preview with up to MaxComponents components, or an apply
\* with up to MaxSuggestions suggestions
FileRequests ==
  UNION {
    {[NoFileRequest EXCEPT !.impl = impl, !.endpoint = "preview", !.pc = "received",
                           !.openai = ai, !.components = cs] :
       impl \in {"ts", "js"}, ai \in {"ok", "unconfigured", "unreachable"},
       cs \in [1..n -> ComponentPool]} : n \in 0..MaxComponents}
  \cup
  UNION {
    {[NoFileRequest EXCEPT !.impl = impl, !.endpoint = "apply", !.pc = "received",
                           !.target = t,
                           !.suggestions = [i \in 1..n |-> [file |-> fs[i], code |-> "merged"]]] :
       impl \in {"ts", "js"}, t \in {<<>>, <<[name |-> "a", path |-> "apps/a"]>>},
       fs \in [1..n -> SuggestionFiles]} : n \in 0..MaxSuggestions}

InitFiles ==
  /\ ReconIdle
  /\ now = 0 /\ started = 0 /\ req = [r \in Reqs |-> IdleReq] /\ remote = EmptyRemote
  /\ fu \in FileRequests

\* preview, up to the return of collectComponentDiffs (ts) or the filter (js)
CollectDiffs ==
  /\ fu.endpoint = "preview" /\ fu.pc = "received"
  /\ fu' =
       IF fu.impl = "ts" /\ Len(fu.components) = 0
       THEN [fu EXCEPT !.pc = "done",
                       !.response = FailResponse("ts", 400, "components[] is required")]
       ELSE IF \E i \in 1..Len(fu.components) :
                 Missing(PathJoin(REPO_ROOT, fu.components[i].path))
       THEN [fu EXCEPT !.pc = "done", !.failed = TRUE,
                       !.response = FailResponse(fu.impl, 500, "ENOENT")]
       ELSE [fu EXCEPT !.pc = "collected",
                       !.diffs = collectComponentDiffs(fu.impl, fu.components)]
  /\ UNCHANGED <<now, started, req, remote, reconVars>>

\* preview, from generateUnifiedSuggestions (ts) or the prompt loop (js) to
\* the response; a completion call without a usable key or connection rejects
Suggest ==
  /\ fu.pc = "collected"
  /\ fu' =
       IF fu.impl = "ts" /\ fu.openai = "unconfigured"
       THEN [fu EXCEPT !.pc = "done",
                       !.response = [status |-> 200,
                                     body |-> [ok |-> TRUE, diffs |-> fu.diffs,
                                               suggestions |-> Placeholders(fu.diffs)]]]
       ELSE IF fu.openai # "ok" /\ Len(fu.diffs) > 0
       THEN [fu EXCEPT !.pc = "done", !.failed = TRUE,
                       !.response = FailResponse(fu.impl, 500, "Connection error.")]
       ELSE [fu EXCEPT !.pc = "done",
                       !.response = [status |-> 200,
                                     body |-> [ok |-> TRUE, diffs |-> fu.diffs,
                                               suggestions |-> Completions(fu.impl, fu.diffs)]]]
  /\ UNCHANGED <<now, started, req, remote, reconVars>>

\* apply: the validation, then one fs.writeFile per suggestion
ApplyFiles ==
  /\ fu.endpoint = "apply" /\ fu.pc = "received"
  /\ fu' =
       IF fu.impl = "ts" /\ (Len(fu.suggestions) = 0 \/ fu.target = <<>>)
       THEN [fu EXCEPT !.pc = "done",
                       !.response = FailResponse("ts", 400,
                                                 "suggestions[] + targetComponent required")]
       ELSE IF fu.impl = "js" /\ fu.target = <<>>
       THEN [fu EXCEPT !.pc = "done",
                       !.response = FailResponse("js", 200, "component + suggestions required")]
       ELSE [fu EXCEPT !.pc = "done",
                       !.written = {PathJoin(PathJoin(REPO_ROOT, fu.target[1].path),
                                             fu.suggestions[i].file) :
                                      i \in 1..Len(fu.suggestions)},
                       !.response = [status |-> 200,
                                     body |-> [ok |-> TRUE,
                                               applied |-> Len(fu.suggestions)]]]
  /\ UNCHANGED <<now, started, req, remote, reconVars>>

NextFiles == CollectDiffs \/ Suggest \/ ApplyFiles

SpecFiles == InitFiles /\ [][NextFiles]_vars

(***************************************************************************)
(* Properties of the remote commit pipeline (Spec)                         *)
(***************************************************************************)
PipelineOps ==
  {"CreateBranch", "CreateBlob", "CreateTree", "CreateCommit", "UpdateRef", "OpenPullRequest"}

OnceOps == PipelineOps \ {"CreateBlob"}

\* the pipeline calls of a request, in the order they were issued
PipelineLog(q) == SelectSeq(q.log, LAMBDA c : c.op \in PipelineOps)

\* the order of the pipeline for a file set of n files
ExpectedOrder(n) ==
  <<"CreateBranch">> \o [i \in 1..n |-> "CreateBlob"]
  \o <<"CreateTree", "CreateCommit", "UpdateRef", "OpenPullRequest">>

IsOpsPrefix(log, expected) ==
  /\ Len(log) <= Len(expected)
  /\ \A i \in 1..Len(log) : log[i].op = expected[i]

Failed(c) == c.status # 200

\* s has sub as a substring
Contains(s, sub) ==
  \E i \in 1..(Len(s) - Len(sub) + 1) : SubSeq(s, i, i + Len(sub) - 1) = sub

ApplyRuns == {r \in Reqs : req[r].kind = "apply"}

\* the request ended with a success response
Succeeded(q) == q.pc = "done" /\ q.response.status = 200

\* the last call of the request failed, and was op
FailedAt(q, op) ==
  /\ Len(q.log) > 0
  /\ q.log[Len(q.log)].op = op
  /\ Failed(q.log[Len(q.log)])

C1_OrderOf(q, plog) ==
  /\ IsOpsPrefix(plog, ExpectedOrder(Len(q.files)))
  /\ \A j \in 1..Len(q.log) :
       q.log[j].op \in PipelineOps => \A i \in 1..(j-1) : ~Failed(q.log[i])
  /\ \A op \in OnceOps : Cardinality({i \in 1..Len(plog) : plog[i].op = op}) <= 1
  /\ Succeeded(q) => Len(plog) = Len(q.files) + 5 /\ \A i \in 1..Len(plog) : ~Failed(plog[i])

\* C1: in every apply run the pipeline calls are issued in the order
\* CreateBranch, one CreateBlob per file of the file set, CreateTree,
\* CreateCommit, UpdateRef, OpenPullRequest; a call is issued only after
\* every earlier call returned success; each call other than CreateBlob is
\* issued at most once; a run that succeeds issued all of them.
C1_PipelineOrder == \A r \in ApplyRuns : C1_OrderOf(req[r], PipelineLog(req[r]))

\* an apply run went through the whole pipeline, blobs included
C1_Witness ==
  \E r \in ApplyRuns :
    /\ Succeeded(req[r])
    /\ Cardinality({i \in 1..Len(req[r].log) : req[r].log[i].op = "CreateBlob"}) >= 2

\* the objects the successful pipeline calls of q created are on the remote
CreatedRemain(q) ==
  /\ (\E i \in 1..Len(q.log) : q.log[i].op = "CreateBranch" /\ ~Failed(q.log[i]))
       => HasRef(remote, q.branchName)
  /\ \A k \in 1..Len(q.treeEntries) : \E b \in remote.blobs : b.sha = q.treeEntries[k].sha
  /\ (\E i \in 1..Len(q.log) : q.log[i].op = "CreateTree" /\ ~Failed(q.log[i]))
       => \E t \in remote.trees : t.sha = q.newTree
  /\ (\E i \in 1..Len(q.log) : q.log[i].op = "CreateCommit" /\ ~Failed(q.log[i]))
       => \E c \in remote.commits : c.sha = q.commit

\* the response is the error result carrying the failed call's status and body
IsErrorResultFor(response, c) ==
  /\ response.status = 500
  /\ response.body.ok = FALSE
  /\ Contains(response.body.error, IntToStr(c.status))
  /\ Contains(response.body.error, RespText(c.status))

C2_AbortOf(q) ==
  /\ \A i \in 1..Len(q.log) :
       (q.log[i].op \in PipelineOps /\ Failed(q.log[i])) =>
         /\ i = Len(q.log)
         /\ q.pc = "done"
         /\ IsErrorResultFor(q.response, q.log[i])
  /\ \A i \in 1..Len(q.log) : q.log[i].method \in {"GET", "POST", "PATCH"}
  /\ CreatedRemain(q)

\* C2: when a pipeline step returns a non-success response no later call is
\* issued, no compensating (deleting) call is issued, the objects created by
\* the earlier steps remain on the remote, and the apply request ends with
\* {ok: false, error} carrying the failed call's status and body.
C2_FailureAborts == \A r \in ApplyRuns : C2_AbortOf(req[r])

\* an apply run failed at a step past CreateBranch, after creating objects
C2_Witness ==
  \E r \in ApplyRuns :
    /\ \E op \in PipelineOps \ {"CreateBranch", "CreateBlob"} : FailedAt(req[r], op)
    /\ Len(req[r].treeEntries) >= 2
    /\ HasRef(remote, req[r].branchName)

\* C3: if the pipeline fails at CreateCommit, the branch ref created in step 1
\* still points at the base sha the run captured and no pull request is open
\* for the branch.
C3_CommitFailureLeavesBase ==
  \A r \in ApplyRuns :
    FailedAt(req[r], "CreateCommit") =>
      /\ req[r].pc = "done"
      /\ HasRef(remote, req[r].branchName)
      /\ RefSha(remote, req[r].branchName) = req[r].sha
      /\ req[r].sha = BaseSha
      /\ \A p \in remote.pulls : p.head # req[r].branchName

\* an apply run failed at CreateCommit
C3_Witness == \E r \in ApplyRuns : FailedAt(req[r], "CreateCommit")

\* C4: every remote call issued while handling a plan request, on success
\* and on error paths, is a GET.
C4_PlanReadsOnly ==
  \A r \in Reqs :
    req[r].kind = "plan" => \A i \in 1..Len(req[r].log) : req[r].log[i].method = "GET"

\* a plan request answered after reading the tree and both manifests
C4_Witness ==
  \E r \in Reqs :
    /\ req[r].kind = "plan"
    /\ Succeeded(req[r])
    /\ Len(req[r].log) >= 11

\* C5: any two apply requests handled by the same process, overlapping or
\* not, generate distinct branch names.
C5_BranchNamesUnique ==
  \A r1, r2 \in ApplyRuns :
    (r1 # r2 /\ req[r1].branchName # "" /\ req[r2].branchName # "")
      => req[r1].branchName # req[r2].branchName

(***************************************************************************)
(* Properties of reconciliation and harmonization (SpecRecon)              *)
(***************************************************************************)
\* the sub-map of a collected module, empty when it has none
SubOf(m, sub) == SubMapOrEmpty(OrEmptyObj(m.packageJson), sub)

\* the indices of the collected modules that hold key k in sub-map sub
Holders(sub, k) == {i \in 1..Len(rmodules) : HasOwn(SubOf(rmodules[i], sub), k)}

HeldValue(i, sub, k) == GetOwn(SubOf(rmodules[i], sub), k)

KeysOf(o) == {o[j][1] : j \in 1..Len(o)}

\* the keys some collected module holds in sub-map sub
KeysHeld(sub) == UNION {KeysOf(SubOf(rmodules[i], sub)) : i \in 1..Len(rmodules)}

\* the distinct values the holders of k have
ValuesHeld(sub, k) == {HeldValue(i, sub, k) : i \in Holders(sub, k)}

\* the key of the cross-module map for key k of sub-map sub
MapKey(sub, k) == IF sub = "devDependencies" THEN "dev:" \o k ELSE k

\* the suggestions (scripts or dependencies) for sub-map sub in a result
SuggestionsFor(result, sub) ==
  IF sub = "scripts" THEN result.suggestions.scripts ELSE result.suggestions.dependencies

HasSuggestion(suggs, key, kind) ==
  \E j \in 1..Len(suggs) : suggs[j].key = key /\ suggs[j].kind = kind

C6_ClassOf(suggs, key, n) ==
  /\ (n = 1) <=> HasSuggestion(suggs, key, "uniform")
  /\ (n >= 2) <=> HasSuggestion(suggs, key, "decision")

\* C6: for every key of the scripts map and of the dependency map the
\* suggestion is Uniform exactly when all collected modules holding the key
\* hold one value, and Decision exactly when two of them hold different values.
C6_Classification ==
  rphase # "collected" =>
    \A sub \in SubMapKeys : \A k \in KeysHeld(sub) :
      C6_ClassOf(SuggestionsFor(rplan, sub), MapKey(sub, k), Cardinality(ValuesHeld(sub, k)))

\* ta >= tb in the (major, minor, patch) order
TupleGE(ta, tb) == CompareTuplesDesc(ta, tb) <= 0

\* the holders whose value has the greatest tuple
BestHolders(sub, k) ==
  {i \in Holders(sub, k) :
     \A j \in Holders(sub, k) :
       TupleGE(VersionTuple(HeldValue(i, sub, k)), VersionTuple(HeldValue(j, sub, k)))}

Least(S) == CHOOSE i \in S : \A j \in S : i <= j

\* the value with the greatest tuple, the earliest in collection order on ties
BestVersion(sub, k) == HeldValue(Least(BestHolders(sub, k)), sub, k)

DepSubs == {"dependencies", "devDependencies"}

\* C7: for every dependency key classified as Decision, recommendedVersion is
\* the observed value with the greatest (major, minor, patch) tuple, the one
\* encountered earliest in collection order when tuples are equal.
C7_RecommendedVersion ==
  rphase # "collected" =>
    \A sub \in DepSubs : \A k \in KeysHeld(sub) :
      \A j \in 1..Len(rplan.suggestions.dependencies) :
        (/\ rplan.suggestions.dependencies[j].key = MapKey(sub, k)
         /\ rplan.suggestions.dependencies[j].kind = "decision")
          => rplan.suggestions.dependencies[j].recommendedVersion = BestVersion(sub, k)

\* the number of holders of k whose value is v
CountHeld(sub, k, v) == Cardinality({i \in Holders(sub, k) : HeldValue(i, sub, k) = v})

\* the holders whose value is held by the most modules
MostCommonHolders(sub, k) ==
  {i \in Holders(sub, k) :
     \A j \in Holders(sub, k) :
       CountHeld(sub, k, HeldValue(i, sub, k)) >= CountHeld(sub, k, HeldValue(j, sub, k))}

\* the most common value, the earliest in collection order on ties
MostCommonValue(sub, k) == HeldValue(Least(MostCommonHolders(sub, k)), sub, k)

\* C8: for every script key classified as Decision, recommendedValue is the
\* value held by the most modules, the one encountered earliest in collection
\* order when counts are equal.
C8_RecommendedValue ==
  rphase # "collected" =>
    \A k \in KeysHeld("scripts") :
      \A j \in 1..Len(rplan.suggestions.scripts) :
        (/\ rplan.suggestions.scripts[j].key = k
         /\ rplan.suggestions.scripts[j].kind = "decision")
          => rplan.suggestions.scripts[j].recommendedValue = MostCommonValue("scripts", k)

\* the harmonized manifest of the i-th collected module
HarmonizedAt(i) == GetOwn(rapply.harmonizedPackageJsons, rmodules[i].path)

\* the keys of sub-map sub in the harmonized manifest of module i
HarmonizedKeys(i, sub) == KeysOf(GetOwn(HarmonizedAt(i), sub))

\* the value the harmonized manifest of module i has for a key its original held
ChangedOnlyByDecision(i, sub, k) ==
  GetOwn(GetOwn(HarmonizedAt(i), sub), k) # HeldValue(i, sub, k) =>
    \E j \in 1..Len(rapply.suggestions.dependencies) :
      /\ rapply.suggestions.dependencies[j].key = MapKey(sub, k)
      /\ rapply.suggestions.dependencies[j].kind = "decision"
      /\ rapply.suggestions.dependencies[j].recommendedVersion
           = GetOwn(GetOwn(HarmonizedAt(i), sub), k)

\* C9: harmonization never adds a key to a module's dependencies (resp.
\* devDependencies) that the module's original manifest did not hold in that
\* scope, and a value changes only by the decision of its own scope.
C9_NoNewDependencyKeys ==
  rphase \in {"applied", "rerun"} =>
    \A i \in 1..Len(rmodules) : \A sub \in DepSubs :
      /\ \A k \in HarmonizedKeys(i, sub) : i \in Holders(sub, k)
      /\ \A k \in KeysHeld(sub) : i \in Holders(sub, k) => ChangedOnlyByDecision(i, sub, k)

\* C10: reconciling the harmonized manifests again yields, for every key that
\* was a Decision in the first pass, a Uniform suggestion with the first
\* pass's recommended value.
C10_Idempotent ==
  rphase = "rerun" =>
    /\ \A j \in 1..Len(rapply.suggestions.scripts) :
         rapply.suggestions.scripts[j].kind = "decision" =>
           \E i \in 1..Len(rsecond.suggestions.scripts) :
             /\ rsecond.suggestions.scripts[i].key = rapply.suggestions.scripts[j].key
             /\ rsecond.suggestions.scripts[i].kind = "uniform"
             /\ rsecond.suggestions.scripts[i].value
                  = rapply.suggestions.scripts[j].recommendedValue
    /\ \A j \in 1..Len(rapply.suggestions.dependencies) :
         rapply.suggestions.dependencies[j].kind = "decision" =>
           \E i \in 1..Len(rsecond.suggestions.dependencies) :
             /\ rsecond.suggestions.dependencies[i].key = rapply.suggestions.dependencies[j].key
             /\ rsecond.suggestions.dependencies[i].kind = "uniform"
             /\ rsecond.suggestions.dependencies[i].version
                  = rapply.suggestions.dependencies[j].recommendedVersion

\* the harmonized manifest of module i has scripts[key] = value
HasScript(i, key, value) ==
  /\ HasOwn(HarmonizedAt(i), "scripts")
  /\ HasOwn(GetOwn(HarmonizedAt(i), "scripts"), key)
  /\ GetOwn(GetOwn(HarmonizedAt(i), "scripts"), key) = value

\* C11: for every module, also one that never had the key and one whose
\* manifest is absent, and for every script Decision, the harmonized manifest
\* of the module has scripts[key] equal to the recommended value.
C11_ScriptDecisionsEverywhere ==
  rphase \in {"applied", "rerun"} =>
    \A i \in 1..Len(rmodules) : \A j \in 1..Len(rapply.suggestions.scripts) :
      rapply.suggestions.scripts[j].kind = "decision" =>
        HasScript(i, rapply.suggestions.scripts[j].key,
                  rapply.suggestions.scripts[j].recommendedValue)

\* harmonized: a script Decision, a module with an absent manifest and a
\* module whose manifest has no scripts
C11_Witness ==
  /\ rphase = "applied"
  /\ \E j \in 1..Len(rapply.suggestions.scripts) :
       rapply.suggestions.scripts[j].kind = "decision"
  /\ \E i \in 1..Len(rmodules) :
       rmodules[i].packageJson = NullJson \/ rmodules[i].packageJson = EmptyObj

\* the top-level keys of the collected manifest of module i
OriginalKeys(i) == KeysOf(OrEmptyObj(rmodules[i].packageJson))

\* C12: for every module, the key set of the harmonized manifest, at the top
\* level and inside scripts, dependencies and devDependencies, is a subset of
\* the corresponding key set of the module's original manifest.
C12_NoNewKeys ==
  rphase \in {"applied", "rerun"} =>
    \A i \in 1..Len(rmodules) :
      /\ KeysOf(HarmonizedAt(i)) \subseteq OriginalKeys(i)
      /\ \A sub \in SubMapKeys :
           HasOwn(HarmonizedAt(i), sub) =>
             HarmonizedKeys(i, sub) \subseteq KeysOf(SubOf(rmodules[i], sub))

(***************************************************************************)
(* Properties of the runs of one process (SpecRuns)                        *)
(***************************************************************************)
\* the version strings of the collected manifests that have no digit
MalformedVersions ==
  {v \in {"latest", ""} :
     \E i \in 1..Len(rmodules) :
       \E d \in {"dependencies", "devDependencies"} :
         \E j \in 1..Len(SubMapOrEmpty(OrEmptyObj(rmodules[i].packageJson), d)) :
           SubMapOrEmpty(OrEmptyObj(rmodules[i].packageJson), d)[j][2] = v}

\* C14: reconciliation never throws: for every collected module list,
\* whatever its version values are (malformed, empty or not a string), the
\* plan run returns a result, and a malformed version compares as the
\* all-zero tuple.
C14_ReconciliationTotal ==
  rphase = "planned" =>
    /\ ~rplan.threw
    /\ \A v \in MalformedVersions : VersionTuple(v) = <<0, 0, 0>>

\* C18: for the same module list, the apply run returns the same summary
\* and suggestions as the plan run handled before it by the same process.
C18_ApplyAgreesWithPlan ==
  rphase = "applied" =>
    /\ rapply.threw = rplan.threw
    /\ ~rplan.threw =>
         /\ rapply.result.summary = rplan.result.summary
         /\ rapply.result.suggestions = rplan.result.suggestions

(***************************************************************************)
(* Properties of collection (SpecCollect)                                  *)
(***************************************************************************)
\* the collection loop of the request ran to its end
CollectionDone(q) == q.pc \in {"analyze", "branch"} \/ Succeeded(q)

\* the name of the directory a file is in
ParentDirName(path) == SplitOn(path, "/")[Len(SplitOn(path, "/")) - 1]

\* modules without its i-th element
WithoutModule(modules, i) == SubSeq(modules, 1, i - 1) \o SubSeq(modules, i + 1, Len(modules))

\* the i-th collected module adds nothing to the scripts map or the dependency map
ContributesNothing(modules, i) ==
  /\ ScriptsMapOf(modules) = ScriptsMapOf(WithoutModule(modules, i))
  /\ DepsMapOf(modules) = DepsMapOf(WithoutModule(modules, i))

\* the i-th file of the request did not parse
Unparseable(q, i) == ~IsJson(remote.files[q.files[i]])

C13_AbsentOf(q) ==
  /\ \A i \in 1..Len(q.modules) :
       /\ q.modules[i].path = q.files[i]
       /\ Unparseable(q, i) =>
            /\ q.modules[i].packageJson = NullJson
            /\ q.modules[i].name = ParentDirName(q.files[i])
            /\ ContributesNothing(q.modules, i)
  /\ CollectionDone(q) => Len(q.modules) = Len(q.files)
  /\ (q.pc = "done" /\ ~Succeeded(q)) => Failed(q.log[Len(q.log)])

\* C13: a manifest that fails to parse never aborts collection: its module
\* is created with an absent manifest and the name of its parent directory,
\* the remaining manifests are still collected, only a failed remote call
\* ends the request with an error, and the module adds no entry to the
\* scripts map or the dependency map.
C13_ParseFailureDegrades == \A r \in Reqs : C13_AbsentOf(req[r])

\* collection ended with an unparseable manifest followed by a parsed one
C13_Witness ==
  /\ CollectionDone(req[1])
  /\ \E i, j \in 1..Len(req[1].modules) :
       /\ i < j
       /\ Unparseable(req[1], i)
       /\ ~Unparseable(req[1], j)
       /\ req[1].modules[j].packageJson # NullJson

\* a tree entry is the manifest file of a module under one of the prefixes
IsManifestUnder(item, paths) ==
  /\ item.type = "blob"
  /\ SplitOn(item.path, "/")[Len(SplitOn(item.path, "/"))] = "package.json"
  /\ \E j \in 1..Len(paths) : StartsWith(item.path, paths[j] \o "/")

\* the paths of the manifests under the prefixes, in tree order
ManifestPaths(tree, paths) ==
  PathsOf(SelectSeq(tree, LAMBDA item : IsManifestUnder(item, paths)))

\* C20: the collected module list has exactly one module, in tree order, for
\* every tree blob that is a manifest file (package.json) under prefix + "/"
\* for some requested prefix, and no module for any other tree entry.
C20_CollectedExactly ==
  \A r \in Reqs :
    CollectionDone(req[r]) =>
      PathsOf(req[r].modules) = ManifestPaths(remote.tree, req[r].paths)

(***************************************************************************)
(* Properties of the file-unification backend (SpecFiles)                  *)
(***************************************************************************)
\* the directories of the request's components that hold rel as a code file
DirsHolding(rel) ==
  {PathJoin(REPO_ROOT, fu.components[i].path) : i \in 1..Len(fu.components)}
  \cap {RepoFiles[j].dir : j \in {k \in 1..Len(RepoFiles) :
                                    /\ RepoFiles[k].rel = rel
                                    /\ IsCodeFile(fu.impl, rel)}}

\* C15: once the groups of a preview are collected, there is a group for the
\* relative path p exactly when p exists in at least two distinct components
\* of the request, whether or not the copies have equal content.
C15_GroupIffTwoComponents ==
  fu.pc = "collected" =>
    \A j \in 1..Len(RepoFiles) :
      (\E i \in 1..Len(fu.diffs) : fu.diffs[i].file = RepoFiles[j].rel)
        <=> Cardinality(DirsHolding(RepoFiles[j].rel)) >= 2

\* the groups of the preview were collected without an error
CollectedOk ==
  /\ fu.endpoint = "preview"
  /\ ~(fu.impl = "ts" /\ Len(fu.components) = 0)
  /\ \A i \in 1..Len(fu.components) : ~Missing(PathJoin(REPO_ROOT, fu.components[i].path))

\* C16: when the unify collaborator is unconfigured or unreachable, a
\* preview whose groups were collected answers with success and with exactly
\* one placeholder suggestion per kept group, in group order.
C16_PlaceholderPerGroup ==
  (fu.pc = "done" /\ CollectedOk /\ fu.openai # "ok") =>
    /\ fu.response.body.ok
    /\ fu.response.body.suggestions = Placeholders(fu.diffs)

\* C17: every error response of the file-unification endpoints has status
\* 500 and body {ok: false, error}, and no response reports success after a
\* step of the handler failed.
C17_ErrorsAre500 ==
  fu.pc = "done" =>
    /\ ~fu.response.body.ok =>
         fu.response.status = 500 /\ DOMAIN fu.response.body = {"ok", "error"}
    /\ fu.failed => ~fu.response.body.ok

\* C19: every file the apply endpoint wrote lies under REPO_ROOT joined with
\* the target component's path.
C19_WritesUnderTarget ==
  fu.pc = "done" =>
    \A w \in fu.written :
      /\ Len(w) > Len(PathJoin(REPO_ROOT, fu.target[1].path))
      /\ SubSeq(w, 1, Len(PathJoin(REPO_ROOT, fu.target[1].path)))
           = PathJoin(REPO_ROOT, fu.target[1].path)

(***************************************************************************)
(* Properties of the tree and of the file set (Spec)                       *)
(***************************************************************************)
\* the tree entry for path points to a blob the remote holds with content
C21_EntryFor(e, path, content) ==
  /\ e.path = path /\ e.mode = "100644" /\ e.type = "blob"
  /\ \E b \in remote.blobs : b.sha = e.sha /\ b.content = content

\* the tree the run q created is based on the base commit and has one entry
\* per file of files, in their order
C21_TreeOf(q, files) ==
  \E t \in remote.trees :
    /\ t.sha = q.newTree
    /\ t.base_tree = BaseSha
    /\ Len(t.tree) = Len(files)
    /\ \A i \in 1..Len(files) :
         C21_EntryFor(t.tree[i], files[i][1], <<"json", DeepCopy(files[i][2]), 2, "\n">>)

\* C21: the CreateTree call of an apply run carries exactly one entry per
\* file of the file set, each (path, "100644", "blob", sha of the blob made
\* of the file's content printed with indent 2 and a trailing newline), and
\* its base_tree is the base commit.
C21_TreeEntries ==
  \A r \in ApplyRuns :
    req[r].newTree # "" => C21_TreeOf(req[r], Entries(req[r].built.harmonizedPackageJsons))

C21_Witness ==
  \E r \in ApplyRuns :
    /\ req[r].newTree # ""
    /\ Len(req[r].built.harmonizedPackageJsons) = 2
    /\ \E t \in remote.trees : t.sha = req[r].newTree /\ Len(t.tree) = 2

C23_ModulesOf(q) ==
  \A i \in 1..Len(q.modules) :
    q.modules[i] = ModuleOf(q.files[i], ContentAt(q.sha, q.files[i]))

\* the commit the run q created has q.sha as its only parent
C23_ParentOf(q) ==
  q.commit # "" => \E c \in remote.commits : c.sha = q.commit /\ c.parents = <<q.sha>>

\* C23: in an apply run every manifest that feeds reconciliation is the
\* manifest at the base commit whose sha the run captured at its start, and
\* that commit is the sole parent of the commit the run creates, even when
\* another actor advances the base branch between the run's reads.
C23_ManifestsOfParent ==
  \A r \in ApplyRuns : C23_ModulesOf(req[r]) /\ C23_ParentOf(req[r])

(***************************************************************************)
(* Properties of the file set of an apply run (SpecCollect)                *)
(***************************************************************************)
\* what harmonization builds from an empty manifest under the script
\* decisions sd
FromEmptyManifest(sd) ==
  << <<"scripts", sd>>, <<"dependencies", EmptyObj>>, <<"devDependencies", EmptyObj>> >>

\* the file set the run q hands to applyChangesAsPR
C24_FileSetOf(q, fileSet) ==
  /\ Len(fileSet) = Len(q.modules)
  /\ \A i \in 1..Len(q.modules) :
       /\ HasOwn(fileSet, q.modules[i].path)
       /\ q.modules[i].packageJson = NullJson =>
            GetOwn(fileSet, q.modules[i].path)
              = FromEmptyManifest(ScriptDecisionsOf(q.built.suggestions.scripts))

\* C24: once an apply run has harmonized, the commit pipeline is entered
\* with a file set that has exactly one entry per collected module path and
\* no other path, whether or not there is any Decision, and a module whose
\* manifest failed to parse has the content built from an empty manifest:
\* scripts holding the script decisions, empty dependencies and
\* devDependencies.
C24_FileSetPerModule ==
  (req[1].kind = "apply" /\ CollectionDone(req[1]) /\ req[1].pc # "analyze") =>
    /\ req[1].pc = "branch"
    /\ req[1].entries = Entries(req[1].built.harmonizedPackageJsons)
    /\ C24_FileSetOf(req[1], req[1].built.harmonizedPackageJsons)

====
